---- MODULE Spec2Model ----
(***************************************************************************)
(* Model of split_csv.py: a command-line utility that splits a CSV file    *)
(* into files of at most max_lines data rows, each with the header.        *)
(*                                                                         *)
(* A file is a sequence of characters.  The csv reader and writer are      *)
(* modelled at the character level (excel dialect: delimiter ",",          *)
(* quotechar '"', doublequote, QUOTE_MINIMAL, lineterminator "\r\n"), so   *)
(* that what is written is related to what was read by parsing, not by     *)
(* assumption.  File names are sequences of characters too.                *)
(***************************************************************************)
EXTENDS Integers, Sequences, FiniteSets, TLC

\* ---------------------------------------------------------------- bounds
\* Largest number of menu fragments concatenated into the input file.
MaxRecords == 4
\* Largest --max-lines value tried (the smallest is -1).
MaxLinesBound == 3

\* ------------------------------------------------------------ characters
DELIMITER == ","
QUOTECHAR == "\""
LF == "\n"
CR == "\r"
\* End-of-line marker the reader feeds to the parser after each line.
EOL == "EOL"

\* ------------------------------------------------------------ csv.reader
ParserReset == [state |-> "START_RECORD", field |-> <<>>, fields |-> <<>>]

ParseSaveField(p) == [p EXCEPT !.fields = Append(@, p.field), !.field = <<>>]

ParseAddChar(p, c) == [p EXCEPT !.field = Append(@, c)]

\* One step of the reader's state machine on character c (or EOL).
ParseProcessChar(p, c) ==
  LET start_field(q) ==
        IF c \in {LF, CR, EOL}
          THEN [ParseSaveField(q) EXCEPT
                  !.state = IF c = EOL THEN "START_RECORD" ELSE "EAT_CRNL"]
        ELSE IF c = QUOTECHAR THEN [q EXCEPT !.state = "IN_QUOTED_FIELD"]
        ELSE IF c = DELIMITER THEN ParseSaveField(q)
        ELSE [ParseAddChar(q, c) EXCEPT !.state = "IN_FIELD"]
  IN
  CASE p.state = "START_RECORD" ->
         IF c = EOL THEN p
         ELSE IF c \in {LF, CR} THEN [p EXCEPT !.state = "EAT_CRNL"]
         ELSE start_field([p EXCEPT !.state = "START_FIELD"])
    [] p.state = "START_FIELD" -> start_field(p)
    [] p.state = "IN_FIELD" ->
         IF c \in {LF, CR, EOL}
           THEN [ParseSaveField(p) EXCEPT
                   !.state = IF c = EOL THEN "START_RECORD" ELSE "EAT_CRNL"]
         ELSE IF c = DELIMITER
           THEN [ParseSaveField(p) EXCEPT !.state = "START_FIELD"]
         ELSE ParseAddChar(p, c)
    [] p.state = "IN_QUOTED_FIELD" ->
         IF c = EOL THEN p
         ELSE IF c = QUOTECHAR THEN [p EXCEPT !.state = "QUOTE_IN_QUOTED_FIELD"]
         ELSE ParseAddChar(p, c)
    [] p.state = "QUOTE_IN_QUOTED_FIELD" ->
         IF c = QUOTECHAR
           THEN [ParseAddChar(p, c) EXCEPT !.state = "IN_QUOTED_FIELD"]
         ELSE IF c = DELIMITER
           THEN [ParseSaveField(p) EXCEPT !.state = "START_FIELD"]
         ELSE IF c \in {LF, CR, EOL}
           THEN [ParseSaveField(p) EXCEPT
                   !.state = IF c = EOL THEN "START_RECORD" ELSE "EAT_CRNL"]
         ELSE [ParseAddChar(p, c) EXCEPT !.state = "IN_FIELD"]
    [] p.state = "EAT_CRNL" ->
         IF c \in {LF, CR} THEN p
         ELSE IF c = EOL THEN [p EXCEPT !.state = "START_RECORD"]
         ELSE [p EXCEPT !.state = "ERROR"]
    [] OTHER -> p

\* Index of the last character of the line of text that starts at pos: the
\* file is opened with newline="", so a line ends at "\n", "\r" or "\r\n"
\* and keeps its terminator.
RECURSIVE LineEnd(_, _)
LineEnd(text, pos) ==
  IF pos >= Len(text) THEN Len(text)
  ELSE IF text[pos] = LF THEN pos
  ELSE IF text[pos] = CR THEN (IF text[pos + 1] = LF THEN pos + 1 ELSE pos)
  ELSE LineEnd(text, pos + 1)

\* The parser after the characters text[from..to].
RECURSIVE FeedChars(_, _, _, _)
FeedChars(p, text, from, to) ==
  IF from > to THEN p
  ELSE FeedChars(ParseProcessChar(p, text[from]), text, from + 1, to)

\* next(reader) with the file position at pos: lines are fed to the parser
\* until a record is complete.  stop is StopIteration; row is the record and
\* pos the position after the lines consumed.
RECURSIVE ReaderLoop(_, _, _)
ReaderLoop(text, pos, p) ==
  IF pos > Len(text)
    THEN IF p.field # <<>> \/ p.state = "IN_QUOTED_FIELD"
           THEN [stop |-> FALSE, row |-> ParseSaveField(p).fields, pos |-> pos]
           ELSE [stop |-> TRUE, row |-> <<>>, pos |-> pos]
    ELSE LET e == LineEnd(text, pos)
             q == ParseProcessChar(FeedChars(p, text, pos, e), EOL)
         IN IF q.state = "START_RECORD"
              THEN [stop |-> FALSE, row |-> q.fields, pos |-> e + 1]
              ELSE ReaderLoop(text, e + 1, q)

ReaderNext(text, pos) == ReaderLoop(text, pos, ParserReset)

\* list(reader) from position pos.
RECURSIVE ReadAllFrom(_, _)
ReadAllFrom(text, pos) ==
  LET r == ReaderNext(text, pos)
  IN IF r.stop THEN <<>> ELSE <<r.row>> \o ReadAllFrom(text, r.pos)

ReadAll(text) == ReadAllFrom(text, 1)

\* ------------------------------------------------------------ csv.writer
LINETERMINATOR == <<CR, LF>>

NeedsQuotes(field) ==
  \E k \in 1..Len(field) : field[k] \in {DELIMITER, QUOTECHAR, CR, LF}

RECURSIVE DoubleQuotes(_)
DoubleQuotes(field) ==
  IF field = <<>> THEN <<>>
  ELSE (IF Head(field) = QUOTECHAR THEN <<QUOTECHAR, QUOTECHAR>>
        ELSE <<Head(field)>>) \o DoubleQuotes(Tail(field))

\* Mutation: fields are written as they are, never quoted.
JoinAppendUnquoted(field, quoted) == field

JoinAppend(field, quoted) ==
  IF quoted THEN <<QUOTECHAR>> \o DoubleQuotes(field) \o <<QUOTECHAR>>
  ELSE field

RECURSIVE JoinFields(_)
JoinFields(row) ==
  IF row = <<>> THEN <<>>
  ELSE IF Len(row) = 1 THEN JoinAppend(row[1], NeedsQuotes(row[1]))
  ELSE JoinAppend(row[1], NeedsQuotes(row[1])) \o <<DELIMITER>>
         \o JoinFields(Tail(row))

\* writer.writerow(row): a record that would be empty although it has a
\* field (one empty field) is written as a quoted empty field.
WriteRow(row) ==
  (IF Len(row) > 0 /\ JoinFields(row) = <<>>
     THEN JoinAppend(<<>>, TRUE)
     ELSE JoinFields(row)) \o LINETERMINATOR

RECURSIVE WriteRows(_)
WriteRows(rows) ==
  IF rows = <<>> THEN <<>> ELSE WriteRow(Head(rows)) \o WriteRows(Tail(rows))

\* ---------------------------------------------------------- pathlib.Path
\* Position of the last "." of name, 0 when there is none (str.rfind + 1).
RFindDot(name) ==
  IF \E k \in 1..Len(name) : name[k] = "."
    THEN CHOOSE k \in 1..Len(name) :
           name[k] = "." /\ \A j \in (k + 1)..Len(name) : name[j] # "."
    ELSE 0

\* Path.suffix: from the last dot on, unless the dot is the first or the
\* last character of the name.
Suffix(name) ==
  LET i == RFindDot(name)
  IN IF 1 < i /\ i < Len(name) THEN SubSeq(name, i, Len(name)) ELSE <<>>

\* Path.stem: the name without its suffix.
Stem(name) ==
  LET i == RFindDot(name)
  IN IF 1 < i /\ i < Len(name) THEN SubSeq(name, 1, i - 1) ELSE name

\* str(n) of a non-negative integer, as the f-string formats it.
RECURSIVE Str(_)
Str(n) ==
  LET digit(d) == <<"0", "1", "2", "3", "4", "5", "6", "7", "8", "9">>[d + 1]
  IN IF n < 10 THEN <<digit(n)>> ELSE Str(n \div 10) \o <<digit(n % 10)>>

\* Mutation: the row range is left out of the name.
OutputFileNameNoRange(base, start, end, ext) == base \o ext

\* f"{base_name}.{start_row}-{end_row}{extension}" in the input's directory.
OutputFileName(base, start, end, ext) ==
  base \o <<".">> \o Str(start) \o <<"-">> \o Str(end) \o ext

\* Mutation: the end row is one too far.
EndRowOffByOne(rn) == rn

\* end_row = row_num - 1
EndRow(rn) == rn - 1

\* ----------------------------------------------------------------- state
VARIABLES
  fs,           \* the directory: regular file name -> content
  dirs,         \* names in the directory that are directories
  input_file,   \* --input-csv
  max_lines,    \* --max-lines
  pc,           \* position in main / split_csv
  stdout,       \* messages printed, in order
  exit_status,  \* <<>> until the process ends, then <<status>>
  f_open,       \* the input handle f is open
  f_pos,        \* position of f: index of the next character to read
  out_open,     \* names of the output handles that are open
  header, base_name, extension,
  chunk_num, row_num, chunk, start_row, end_row, loop_i, output_file,
  input0,       \* history: content of the input when the run started
  opened,       \* history: number of times the input was opened
  ranges        \* history: <<start_row, end_row>> of each file written

vars == <<fs, dirs, input_file, max_lines, pc, stdout, exit_status, f_open,
          f_pos, out_open, header, base_name, extension, chunk_num, row_num,
          chunk, start_row, end_row, loop_i, output_file, input0, opened,
          ranges>>

\* --------------------------------------------------------------- inputs
\* Fragments of CSV text the input file is made of: a plain row followed by
\* the start of another one; a row with a needlessly quoted field, ended by
\* CR LF; a quoted field holding a line feed, a delimiter and a quote, ended
\* by CR; a blank line and a row of one empty field.
Fragments ==
  { <<"a", LF, "b">>,
    <<QUOTECHAR, "a", QUOTECHAR, DELIMITER, "b", CR, LF>>,
    <<QUOTECHAR, LF, DELIMITER, QUOTECHAR, QUOTECHAR, QUOTECHAR, CR>>,
    <<LF, QUOTECHAR, QUOTECHAR, LF>> }

RECURSIVE Texts(_)
Texts(n) ==
  IF n = 0 THEN {<<>>}
  ELSE Texts(n - 1) \cup {t \o g : t \in Texts(n - 1), g \in Fragments}

InputNames == { <<"d", ".", "c">>, <<"d">>, <<".", "c">> }

Init ==
  /\ input_file \in InputNames
  /\ max_lines \in -1..MaxLinesBound
  /\ \/ /\ fs = <<>>
        /\ dirs \in {{}, {input_file}}
     \/ /\ \E t \in Texts(MaxRecords) : fs = (input_file :> t)
        /\ dirs = {}
  /\ input0 = IF input_file \in DOMAIN fs THEN fs[input_file] ELSE <<>>
  /\ pc = "main"
  /\ stdout = <<>>
  /\ exit_status = <<>>
  /\ f_open = FALSE
  /\ f_pos = 0
  /\ out_open = {}
  /\ header = <<>>
  /\ base_name = <<>>
  /\ extension = <<>>
  /\ chunk_num = 0
  /\ row_num = 0
  /\ chunk = <<>>
  /\ start_row = 0
  /\ end_row = 0
  /\ loop_i = 0
  /\ output_file = <<>>
  /\ opened = 0
  /\ ranges = <<>>

Emit(msg) == stdout' = Append(stdout, msg)

splitVars == <<f_open, f_pos, out_open, header, base_name, extension,
               chunk_num, row_num, chunk, start_row, end_row, loop_i,
               output_file, opened, ranges>>
argVars == <<dirs, input_file, max_lines, input0>>

\* ------------------------------------------------------------------ main
\* if not args.input_csv.exists(): print(...); return
CheckExists ==
  /\ pc = "main"
  /\ IF input_file \notin (DOMAIN fs \cup dirs)
       THEN Emit(<<"does not exist", input_file>>) /\ pc' = "exit"
       ELSE UNCHANGED stdout /\ pc' = "main_is_file"
  /\ UNCHANGED <<fs, exit_status, argVars, splitVars>>

\* if not args.input_csv.is_file(): print(...); return
CheckIsFile ==
  /\ pc = "main_is_file"
  /\ IF input_file \notin DOMAIN fs
       THEN Emit(<<"is not a file", input_file>>) /\ pc' = "exit"
       ELSE UNCHANGED stdout /\ pc' = "main_max_lines"
  /\ UNCHANGED <<fs, exit_status, argVars, splitVars>>

\* Mutation: zero is accepted as max-lines.
CheckMaxLinesAcceptsZero ==
  /\ pc = "main_max_lines"
  /\ IF max_lines < 0
       THEN Emit(<<"max-lines must be a positive integer", <<>>>>)
            /\ pc' = "exit"
       ELSE UNCHANGED stdout /\ pc' = "open_input"
  /\ UNCHANGED <<fs, exit_status, argVars, splitVars>>

\* if args.max_lines <= 0: print(...); return
CheckMaxLines ==
  /\ pc = "main_max_lines"
  /\ IF max_lines <= 0
       THEN Emit(<<"max-lines must be a positive integer", <<>>>>)
            /\ pc' = "exit"
       ELSE UNCHANGED stdout /\ pc' = "open_input"
  /\ UNCHANGED <<fs, exit_status, argVars, splitVars>>

\* main returns and the interpreter exits with status 0.
Exit ==
  /\ pc = "exit"
  /\ exit_status' = <<0>>
  /\ pc' = "done"
  /\ UNCHANGED <<fs, stdout, argVars, splitVars>>

\* ------------------------------------------------------------- split_csv
\* with open(input_file, "r", ...) as f: reader = csv.reader(f)
OpenInput ==
  /\ pc = "open_input"
  /\ f_open' = TRUE
  /\ f_pos' = 1
  /\ opened' = opened + 1
  /\ pc' = "read_header"
  /\ UNCHANGED <<fs, stdout, exit_status, argVars, out_open, header,
                 base_name, extension, chunk_num, row_num, chunk, start_row,
                 end_row, loop_i, output_file, ranges>>

\* Mutation: the return after the "empty" message is missing.
ReadHeaderNoReturn ==
  /\ pc = "read_header"
  /\ LET r == ReaderNext(fs[input_file], f_pos)
     IN IF r.stop
          THEN /\ Emit(<<"Input file is empty", <<>>>>)
               /\ pc' = "setup"
               /\ UNCHANGED <<header, f_pos>>
          ELSE /\ header' = r.row
               /\ f_pos' = r.pos
               /\ pc' = "setup"
               /\ UNCHANGED stdout
  /\ UNCHANGED <<fs, exit_status, argVars, f_open, out_open, base_name,
                 extension, chunk_num, row_num, chunk, start_row, end_row,
                 loop_i, output_file, opened, ranges>>

\* header = next(reader); on StopIteration print and return
ReadHeader ==
  /\ pc = "read_header"
  /\ LET r == ReaderNext(fs[input_file], f_pos)
     IN IF r.stop
          THEN /\ Emit(<<"Input file is empty", <<>>>>)
               /\ pc' = "close_input"
               /\ UNCHANGED <<header, f_pos>>
          ELSE /\ header' = r.row
               /\ f_pos' = r.pos
               /\ pc' = "setup"
               /\ UNCHANGED stdout
  /\ UNCHANGED <<fs, exit_status, argVars, f_open, out_open, base_name,
                 extension, chunk_num, row_num, chunk, start_row, end_row,
                 loop_i, output_file, opened, ranges>>

\* base_name, extension, chunk_num = 0, row_num = 1
Setup ==
  /\ pc = "setup"
  /\ base_name' = Stem(input_file)
  /\ extension' = Suffix(input_file)
  /\ chunk_num' = 0
  /\ row_num' = 1
  /\ pc' = "chunk_begin"
  /\ UNCHANGED <<fs, stdout, exit_status, argVars, f_open, f_pos, out_open,
                 header, chunk, start_row, end_row, loop_i, output_file,
                 opened, ranges>>

\* chunk = []; start_row = row_num; the for loop starts
ChunkBegin ==
  /\ pc = "chunk_begin"
  /\ chunk' = <<>>
  /\ start_row' = row_num
  /\ loop_i' = 0
  /\ pc' = "read_row"
  /\ UNCHANGED <<fs, stdout, exit_status, argVars, f_open, f_pos, out_open,
                 header, base_name, extension, chunk_num, row_num, end_row,
                 output_file, opened, ranges>>

\* Mutation: the loop runs max_lines + 1 times.
ReadRowOffByOne ==
  /\ pc = "read_row"
  /\ LET r == ReaderNext(fs[input_file], f_pos)
     IN IF loop_i <= max_lines /\ ~r.stop
          THEN /\ chunk' = Append(chunk, r.row)
               /\ row_num' = row_num + 1
               /\ f_pos' = r.pos
               /\ loop_i' = loop_i + 1
               /\ pc' = "read_row"
          ELSE /\ pc' = "chunk_check"
               /\ UNCHANGED <<chunk, row_num, f_pos, loop_i>>
  /\ UNCHANGED <<fs, stdout, exit_status, argVars, f_open, out_open, header,
                 base_name, extension, chunk_num, start_row, end_row,
                 output_file, opened, ranges>>

\* One iteration of "for _ in range(max_lines)": read a row into the chunk,
\* or leave the loop when the range or the reader is exhausted.
ReadRow ==
  /\ pc = "read_row"
  /\ LET r == ReaderNext(fs[input_file], f_pos)
     IN IF loop_i < max_lines /\ ~r.stop
          THEN /\ chunk' = Append(chunk, r.row)
               /\ row_num' = row_num + 1
               /\ f_pos' = r.pos
               /\ loop_i' = loop_i + 1
               /\ pc' = "read_row"
          ELSE /\ pc' = "chunk_check"
               /\ UNCHANGED <<chunk, row_num, f_pos, loop_i>>
  /\ UNCHANGED <<fs, stdout, exit_status, argVars, f_open, out_open, header,
                 base_name, extension, chunk_num, start_row, end_row,
                 output_file, opened, ranges>>

\* if not chunk: break; else end_row and output_file are computed
ChunkCheck ==
  /\ pc = "chunk_check"
  /\ IF chunk = <<>>
       THEN /\ pc' = "report"
            /\ UNCHANGED <<end_row, output_file>>
       ELSE /\ end_row' = EndRow(row_num)
            /\ output_file' = OutputFileName(base_name, start_row,
                                             EndRow(row_num), extension)
            /\ pc' = "open_output"
  /\ UNCHANGED <<fs, stdout, exit_status, argVars, f_open, f_pos, out_open,
                 header, base_name, extension, chunk_num, row_num, chunk,
                 start_row, loop_i, opened, ranges>>

\* with open(output_file, "w", ...) as out_f: creates or truncates the file
OpenOutput ==
  /\ pc = "open_output"
  /\ fs' = (output_file :> <<>>) @@ fs
  /\ out_open' = out_open \cup {output_file}
  /\ ranges' = Append(ranges, <<start_row, end_row>>)
  /\ pc' = "write_header"
  /\ UNCHANGED <<stdout, exit_status, argVars, f_open, f_pos, header,
                 base_name, extension, chunk_num, row_num, chunk, start_row,
                 end_row, loop_i, output_file, opened>>

\* Mutation: the header is not written.
WriteHeaderSkipped ==
  /\ pc = "write_header"
  /\ pc' = "write_chunk"
  /\ UNCHANGED <<fs, stdout, exit_status, argVars, splitVars>>

\* writer.writerow(header)
WriteHeader ==
  /\ pc = "write_header"
  /\ fs' = [fs EXCEPT ![output_file] = @ \o WriteRow(header)]
  /\ pc' = "write_chunk"
  /\ UNCHANGED <<stdout, exit_status, argVars, splitVars>>

\* Mutation: the first row of the chunk is not written.
WriteChunkDropsFirst ==
  /\ pc = "write_chunk"
  /\ fs' = [fs EXCEPT ![output_file] = @ \o WriteRows(Tail(chunk))]
  /\ pc' = "close_output"
  /\ UNCHANGED <<stdout, exit_status, argVars, splitVars>>

\* writer.writerows(chunk)
WriteChunk ==
  /\ pc = "write_chunk"
  /\ fs' = [fs EXCEPT ![output_file] = @ \o WriteRows(chunk)]
  /\ pc' = "close_output"
  /\ UNCHANGED <<stdout, exit_status, argVars, splitVars>>

\* Mutation: the output handle is left open.
CloseOutputLeak ==
  /\ pc = "close_output"
  /\ pc' = "announce"
  /\ UNCHANGED <<fs, stdout, exit_status, argVars, splitVars>>

\* the end of the inner with block closes out_f
CloseOutput ==
  /\ pc = "close_output"
  /\ out_open' = out_open \ {output_file}
  /\ pc' = "announce"
  /\ UNCHANGED <<fs, stdout, exit_status, argVars, f_open, f_pos, header,
                 base_name, extension, chunk_num, row_num, chunk, start_row,
                 end_row, loop_i, output_file, opened, ranges>>

\* Mutation: the chunk counter is not incremented.
AnnounceNoCount ==
  /\ pc = "announce"
  /\ Emit(<<"Created", output_file>>)
  /\ pc' = "chunk_begin"
  /\ UNCHANGED <<fs, exit_status, argVars, splitVars>>

\* print(f"Created: {output_file}"); chunk_num += 1
Announce ==
  /\ pc = "announce"
  /\ Emit(<<"Created", output_file>>)
  /\ chunk_num' = chunk_num + 1
  /\ pc' = "chunk_begin"
  /\ UNCHANGED <<fs, exit_status, argVars, f_open, f_pos, out_open, header,
                 base_name, extension, row_num, chunk, start_row, end_row,
                 loop_i, output_file, opened, ranges>>

\* the closing message after the loop
Report ==
  /\ pc = "report"
  /\ IF chunk_num = 0
       THEN Emit(<<"No data rows found in the input file", <<>>>>)
       ELSE Emit(<<"Split complete", Str(chunk_num)>>)
  /\ pc' = "close_input"
  /\ UNCHANGED <<fs, exit_status, argVars, splitVars>>

\* leaving the outer with block (by return or at its end) closes f
CloseInput ==
  /\ pc = "close_input"
  /\ f_open' = FALSE
  /\ pc' = "exit"
  /\ UNCHANGED <<fs, stdout, exit_status, argVars, f_pos, out_open, header,
                 base_name, extension, chunk_num, row_num, chunk, start_row,
                 end_row, loop_i, output_file, opened, ranges>>

Next ==
  \/ CheckExists
  \/ CheckIsFile
  \/ CheckMaxLines
  \/ Exit
  \/ OpenInput
  \/ ReadHeader
  \/ Setup
  \/ ChunkBegin
  \/ ReadRow
  \/ ChunkCheck
  \/ OpenOutput
  \/ WriteHeader
  \/ WriteChunk
  \/ CloseOutput
  \/ Announce
  \/ Report
  \/ CloseInput

Spec == Init /\ [][Next]_vars

\* ------------------------------------------------- vocabulary of the claims
\* The records of the input as csv.reader yields them, header first.
InputRows == ReadAll(input0)
\* H: the number of data rows of the input.
DataRowCount == Len(InputRows) - 1
InputIsFile == input_file \in DOMAIN fs
ValidArgs == InputIsFile /\ max_lines >= 1
HasHeader == InputRows # <<>>
OutputNames == DOMAIN fs \ {input_file}
Ceil(h, n) == (h + n - 1) \div n
Messages(kind) == {k \in 1..Len(stdout) : stdout[k][1] = kind}
ErrorKinds == {"does not exist", "is not a file",
               "max-lines must be a positive integer"}
ClosingKinds == {"No data rows found in the input file", "Split complete"}
\* The name the file holding rows s..e must have.
RangeName(s, e) ==
  Stem(input_file) \o <<".">> \o Str(s) \o <<"-">> \o Str(e)
    \o Suffix(input_file)
\* The data rows (header excluded) parsed back from output file n.
DataRowsOf(n) == Tail(ReadAll(fs[n]))
\* The bytes of the first record of a text, line terminator included.
FirstRecordBytes(text) == SubSeq(text, 1, ReaderNext(text, 1).pos - 1)

\* C1: a completed run on an input with a header and H data rows, with
\* max_lines = N >= 1, has created exactly ceil(H/N) output files.
C1_FileCount ==
  (pc = "done" /\ ValidArgs /\ HasHeader) =>
    Cardinality(OutputNames) = Ceil(DataRowCount, max_lines)

C1_Witness ==
  /\ pc = "done" /\ ValidArgs /\ HasHeader
  /\ DataRowCount = 5 /\ max_lines = 2
  /\ Cardinality(OutputNames) = 3

\* C2: the row ranges naming the output files are non-empty intervals, the
\* first starts at 1, each next one starts right after the previous end,
\* the last ends at H, and no two output files share a name.
C2_RangesCover ==
  (pc = "done" /\ ValidArgs /\ DataRowCount >= 1) =>
    /\ Len(ranges) >= 1
    /\ ranges[1][1] = 1
    /\ ranges[Len(ranges)][2] = DataRowCount
    /\ \A k \in 1..Len(ranges) : ranges[k][1] <= ranges[k][2]
    /\ \A k \in 1..(Len(ranges) - 1) : ranges[k + 1][1] = ranges[k][2] + 1
    /\ OutputNames = {RangeName(ranges[k][1], ranges[k][2]) :
                        k \in 1..Len(ranges)}
    /\ Cardinality(OutputNames) = Len(ranges)

C2_Witness ==
  /\ pc = "done" /\ ValidArgs
  /\ Len(ranges) = 3
  /\ ranges[2] = <<3, 4>>
  /\ ranges[3] = <<5, 5>>

\* C3: the file named start-end holds exactly the input's data rows
\* start..end, and the data rows of the output files, concatenated in
\* ascending range order, are the input's data rows in their order.
RECURSIVE ConcatDataRows(_)
ConcatDataRows(k) ==
  IF k = 0 THEN <<>>
  ELSE ConcatDataRows(k - 1)
         \o DataRowsOf(RangeName(ranges[k][1], ranges[k][2]))

C3_RowsPreserved ==
  (pc = "done" /\ ValidArgs /\ HasHeader) =>
    /\ \A s \in 1..DataRowCount : \A e \in 1..DataRowCount :
         RangeName(s, e) \in OutputNames =>
           DataRowsOf(RangeName(s, e)) = SubSeq(InputRows, s + 1, e + 1)
    /\ \A k \in 1..Len(ranges) :
         RangeName(ranges[k][1], ranges[k][2]) \in OutputNames
    /\ ConcatDataRows(Len(ranges)) = Tail(InputRows)

C3_Witness ==
  /\ pc = "done" /\ ValidArgs
  /\ Len(ranges) >= 2
  /\ \E k \in 2..Len(InputRows) : \E j \in 1..Len(InputRows[k]) :
       NeedsQuotes(InputRows[k][j])
  /\ \E k \in 2..Len(InputRows) : InputRows[k] = <<>>
  /\ ConcatDataRows(Len(ranges)) = Tail(InputRows)

\* C4 as stated: every output file begins with a header row identical,
\* byte for byte, to the first row of the input.
C4_HeaderByteIdentical ==
  (pc = "done" /\ ValidArgs) =>
    \A n \in OutputNames :
      FirstRecordBytes(fs[n]) = FirstRecordBytes(input0)

\* C4 amended: every output file begins with exactly one header row whose
\* fields are those of the first row of the input (its bytes are the
\* writer's rendering of these fields), followed by the chunk's rows only;
\* the header is assigned once, when it is read, and never afterwards.
C4_HeaderFieldsIdentical ==
  /\ []((pc = "done" /\ ValidArgs) =>
          /\ \A n \in OutputNames :
               /\ Head(ReadAll(fs[n])) = Head(InputRows)
               /\ FirstRecordBytes(fs[n]) = WriteRow(Head(InputRows))
          /\ \A k \in 1..Len(ranges) :
               Len(ReadAll(fs[RangeName(ranges[k][1], ranges[k][2])]))
                 = ranges[k][2] - ranges[k][1] + 2)
  /\ [][header' # header => pc = "read_header"]_vars

C4_Witness ==
  /\ pc = "done" /\ ValidArgs
  /\ Cardinality(OutputNames) >= 3
  /\ FirstRecordBytes(input0) # WriteRow(Head(InputRows))
  /\ \A n \in OutputNames : Head(ReadAll(fs[n])) = Head(InputRows)

\* C5: every output file but the last holds exactly N data rows, the last
\* one H mod N rows if that is not 0 and N rows otherwise; no output file
\* holds no row or more than N rows.
C5_ChunkSizes ==
  (pc = "done" /\ ValidArgs /\ DataRowCount >= 1) =>
    /\ Len(ranges) >= 1
    /\ \A k \in 1..(Len(ranges) - 1) :
         Len(DataRowsOf(RangeName(ranges[k][1], ranges[k][2]))) = max_lines
    /\ Len(DataRowsOf(RangeName(ranges[Len(ranges)][1],
                                ranges[Len(ranges)][2])))
         = IF DataRowCount % max_lines # 0
             THEN DataRowCount % max_lines ELSE max_lines
    /\ \A n \in OutputNames :
         Len(DataRowsOf(n)) >= 1 /\ Len(DataRowsOf(n)) <= max_lines

C5_Witness ==
  /\ pc = "done" /\ ValidArgs
  /\ max_lines = 3 /\ DataRowCount = 7
  /\ Len(ranges) = 3
  /\ Len(DataRowsOf(RangeName(7, 7))) = 1

\* C6: a run whose input does not exist, or is a directory, or whose
\* max-lines is not positive, never opens the input and creates no file; it
\* ends with status 0 after exactly one message, that of the first failing
\* check in the order exists, is a file, max-lines.
C6_ValidationFailure ==
  (~ValidArgs) =>
    /\ opened = 0 /\ ~f_open /\ out_open = {}
    /\ DOMAIN fs \subseteq {input_file}
    /\ Len(stdout) <= 1
    /\ pc = "done" =>
         /\ exit_status = <<0>>
         /\ Len(stdout) = 1
         /\ stdout[1][1] =
              IF input_file \notin (DOMAIN fs \cup dirs) THEN "does not exist"
              ELSE IF input_file \in dirs THEN "is not a file"
              ELSE "max-lines must be a positive integer"

C6_Witness ==
  /\ pc = "done"
  /\ input_file \in dirs /\ max_lines <= 0
  /\ stdout = << <<"is not a file", input_file>> >>
  /\ exit_status = <<0>>

\* C7: on an input of zero lines the run reports that the input is empty
\* and nothing else, creates no file and ends with status 0.
C7_EmptyInput ==
  (ValidArgs /\ input0 = <<>>) =>
    /\ OutputNames = {}
    /\ Messages("No data rows found in the input file") = {}
    /\ Messages("Split complete") = {}
    /\ pc = "done" =>
         /\ stdout = << <<"Input file is empty", <<>>>> >>
         /\ exit_status = <<0>>

C7_Witness ==
  /\ pc = "done" /\ ValidArgs /\ input0 = <<>>
  /\ opened = 1
  /\ Len(stdout) = 1

\* C8: after processing an input that has a header the run has emitted
\* exactly one closing message, as its last message: "no data rows found",
\* with no file written, exactly when there is no data row; otherwise a
\* summary whose count is the number of output files and of "Created"
\* announcements.
C8_ClosingMessage ==
  (pc = "done" /\ ValidArgs /\ HasHeader) =>
    /\ Cardinality(Messages("No data rows found in the input file")
                     \cup Messages("Split complete")) = 1
    /\ stdout[Len(stdout)][1] \in ClosingKinds
    /\ Messages("Input file is empty") = {}
    /\ (chunk_num = 0) <=> (DataRowCount = 0)
    /\ IF DataRowCount = 0
         THEN /\ stdout = << <<"No data rows found in the input file",
                               <<>>>> >>
              /\ OutputNames = {}
         ELSE /\ stdout[Len(stdout)] =
                   <<"Split complete", Str(Cardinality(OutputNames))>>
              /\ Cardinality(Messages("Created")) = Cardinality(OutputNames)
              /\ {stdout[k][2] : k \in Messages("Created")} = OutputNames

C8_Witness ==
  /\ pc = "done" /\ ValidArgs /\ HasHeader
  /\ DataRowCount = 4
  /\ stdout[Len(stdout)] = <<"Split complete", <<"2">>>>
  /\ Cardinality(Messages("Created")) = 2

\* C9: in every state of every run the input file, if there is one, is
\* still there with the content it had when the run started, and the name
\* of an output file is never the name of the input.
C9_InputUntouched ==
  /\ (input0 # <<>>) => (InputIsFile /\ fs[input_file] = input0)
  /\ InputIsFile => fs[input_file] = input0
  /\ (pc \in {"open_output", "write_header", "write_chunk", "close_output",
              "announce"}) => output_file # input_file
  /\ \A k \in Messages("Created") : stdout[k][2] # input_file

C9_Witness ==
  /\ pc = "done" /\ ValidArgs
  /\ Cardinality(OutputNames) >= 2
  /\ input0 # <<>> /\ fs[input_file] = input0

\* C10: the input is opened once and read forwards only; an output file is
\* opened, written (header, then rows) and closed before a row of the next
\* chunk is read; at most one output handle is open at a time; the files
\* are created in ascending range order; when the run has ended no handle
\* is open.
C10_Sequencing ==
  /\ [](/\ opened <= 1
        /\ (pc = "done" /\ ValidArgs) => opened = 1
        /\ Cardinality(out_open) <= 1
        /\ (pc \in {"chunk_begin", "read_row", "chunk_check", "report"}) =>
             /\ out_open = {}
             /\ Len(ranges) = chunk_num
             /\ \A k \in 1..Len(ranges) :
                  Len(ReadAll(fs[RangeName(ranges[k][1], ranges[k][2])]))
                    = ranges[k][2] - ranges[k][1] + 2
        /\ \A j \in 1..Len(ranges) : \A k \in 1..Len(ranges) :
             j < k => ranges[j][2] < ranges[k][1]
        /\ pc = "done" => (~f_open /\ out_open = {}))
  /\ [][f_pos' >= f_pos]_vars
  /\ [][f_pos' # f_pos => (f_open' /\ out_open = {})]_vars
  /\ [][opened' # opened => ~f_open]_vars

C10_Witness ==
  /\ pc = "read_row"
  /\ chunk_num = 2 /\ Len(chunk) = 1
  /\ out_open = {} /\ f_open
  /\ Cardinality(OutputNames) = 2

====
